---- MODULE Spec2Model ----
(***************************************************************************)
(* ami-util: resolution of the latest machine image and the rewriting of   *)
(* stale image identifiers in files (internal/aws, internal/fileprocessor, *)
(* cmd).                                                                   *)
(*                                                                         *)
(* Strings are sequences of symbols.  A symbol is one character, or one of *)
(* the fixed literals the code looks for ("ami-", ".backup", the family    *)
(* token, "*").                                                            *)
(***************************************************************************)
EXTENDS Integers, Sequences, FiniteSets, TLC

VARIABLES
    cfgAccounts,          \* cfg.Accounts
    cfgRegions,           \* cfg.Regions
    patterns,             \* the patterns handed to collectAMIReplacements
    profileRegion,        \* the region of the AWS profile, "" when it has none
    catalog,              \* the provider: <<account, region>> -> directory
    rpc,                  \* position in collectAMIReplacements
    ai,                   \* index of the account in cfg.Accounts
    ri,                   \* index of the region in regions
    pi,                   \* index of the pattern in patterns
    regions,              \* processAccount: the regions of the account
    replacements,         \* GetLatestAMIs: the replacements of the pair so far
    accountReplacements,  \* processAccount: the replacements of the account
    allReplacements,      \* collectAMIReplacements: the plan
    pairs,                \* history: one record per GetLatestAMIs call returned
    calls,                \* history: the processPattern calls made so far
    fs,                   \* the file system: path -> [exists, data]
    fs0,                  \* history: the file system when the run began
    runs,                 \* number of runs of the Processor begun
    faults,               \* number of file-system calls that have failed
    fpc,                  \* position in ProcessFile / ProcessDirectory
    dirMode,              \* TRUE in ProcessDirectory, FALSE in ProcessFile
    planArg,              \* the replacements handed to the Processor
    files,                \* ProcessDirectory: the files collected by the walk
    fi,                   \* processFiles: index of the file in files
    filePath,             \* the file being processed
    content,              \* the bytes read from filePath
    newContent,           \* the rewritten content
    replaceCount,         \* the substitutions made in content
    totalReplacements,    \* processFiles: the running total
    retErr,               \* what the entry point returned: "nil" or the failure
    report,               \* what ProcessDirectory logged: [total, files]
    status,               \* history: path -> how its processing ended in this run
    writes,               \* history: the os.WriteFile calls of this run
    rwPc,        \* rewriter harness: "start" | "once" | "twice"
    rwContent,   \* content handed to ReplaceAMIsInContent
    rwPlan,      \* replacements handed to ReplaceAMIsInContent
    rwFirst,     \* result of the first application
    rwSecond,    \* result of applying the same plan to rwFirst.content
    cfgFile,     \* cfg.File: the target path
    cfgPatterns, \* cfg.Patterns: the configured patterns
    userRegions, \* the regions the flag, the environment or a file specify
    upc,         \* position in runUpdate
    runErr,      \* what runUpdate returned: "nil" or the failure
    runLog       \* what runUpdate logged last

rwVars == <<rwPc, rwContent, rwPlan, rwFirst, rwSecond>>

cfgVars == <<cfgAccounts, cfgRegions, patterns, profileRegion, catalog>>

resVars == <<rpc, ai, ri, pi, regions, replacements, accountReplacements,
             allReplacements, pairs, calls>>

fpVars == <<fs, fs0, runs, faults, fpc, dirMode, planArg, files, fi, filePath, content,
            newContent, replaceCount, totalReplacements, retErr, report, status, writes>>

runVars == <<cfgFile, cfgPatterns, userRegions, upc, runErr, runLog>>

vars == <<cfgVars, resVars, rwVars, fpVars, runVars>>

\* what the actions of each component leave alone
resFrame == <<cfgVars, rwVars, fpVars, runVars>>

rwFrame == <<cfgVars, resVars, fpVars, runVars>>

fpFrame == <<cfgVars, resVars, rwVars, runVars>>

----------------------------------------------------------------------------
(* Bounds of the model *)

\* most patterns handed to collectAMIReplacements
MaxPatterns == 2
\* most consecutive runs of the Processor on the same tree
MaxRuns == 2
\* most file-system calls that fail in the runs on a tree
MaxFaults == 1
\* longest replacement plan handed to the rewriter harness
MaxPlan == 2
\* most words (identifiers or separators) in a content of the rewriter harness
MaxWords == 2

----------------------------------------------------------------------------
(* Strings *)

RECURSIVE Rep(_, _)
Rep(c, n) == IF n = 0 THEN <<>> ELSE <<c>> \o Rep(c, n - 1)

\* the sequences over S of length at most n
RECURSIVE SeqsUpTo(_, _)
SeqsUpTo(S, n) == IF n = 0 THEN {<<>>}
                  ELSE SeqsUpTo(S, n - 1) \cup
                       {Append(s, x) : s \in SeqsUpTo(S, n - 1), x \in S}

HasPrefix(s, p) == Len(s) >= Len(p) /\ SubSeq(s, 1, Len(p)) = p

HasSuffix(s, p) == Len(s) >= Len(p) /\ SubSeq(s, Len(s) - Len(p) + 1, Len(s)) = p

\* strings.Contains
Contains(s, sub) == \E i \in 0..(Len(s) - Len(sub)) : SubSeq(s, i + 1, i + Len(sub)) = sub

\* strings.Count: non-overlapping occurrences, scanning from the left
RECURSIVE Count(_, _)
Count(s, sub) ==
    IF sub = <<>> THEN Len(s) + 1
    ELSE IF Len(s) < Len(sub) THEN 0
    ELSE IF SubSeq(s, 1, Len(sub)) = sub
         THEN 1 + Count(SubSeq(s, Len(sub) + 1, Len(s)), sub)
         ELSE Count(Tail(s), sub)

\* strings.ReplaceAll: every non-overlapping occurrence, scanning from the left
RECURSIVE ReplaceAll(_, _, _)
ReplaceAll(s, old, new) ==
    IF old = <<>>
    THEN IF s = <<>> THEN new ELSE new \o <<Head(s)>> \o ReplaceAll(Tail(s), old, new)
    ELSE IF Len(s) < Len(old) THEN s
    ELSE IF SubSeq(s, 1, Len(old)) = old
         THEN new \o ReplaceAll(SubSeq(s, Len(old) + 1, Len(s)), old, new)
         ELSE <<Head(s)>> \o ReplaceAll(Tail(s), old, new)

----------------------------------------------------------------------------
(* Image identifiers: "ami-" and 8 (old format) or 17 (new format) hex     *)
(* characters.                                                             *)

ShortHex == 8
LongHex == 17

Ami(hex) == <<"ami-">> \o hex

IdA == Ami(Rep("a", ShortHex))
IdB == Ami(Rep("b", ShortHex))
\* a new-format identifier whose first characters are those of IdA
IdAL == Ami(Rep("a", ShortHex) \o Rep("c", LongHex - ShortHex))

ImageIds == {IdA, IdB, IdAL}

----------------------------------------------------------------------------
(* Content Rewriter: aws.ReplaceAMIsInContent *)

AMIReplacement(old, new, name) == [OldAMI |-> old, NewAMI |-> new, Name |-> name]

\* mutant of ReplaceStep: the occurrences of the new identifier are counted
ReplaceStepCountsNew(acc, replacement) ==
    LET oldCount == Count(acc.content, replacement.NewAMI)
    IN  IF oldCount > 0
        THEN [content |-> ReplaceAll(acc.content, replacement.OldAMI, replacement.NewAMI),
              count   |-> acc.count + oldCount]
        ELSE acc

\* one iteration of the loop over replacements; acc = [content, count]
ReplaceStep(acc, replacement) ==
    LET oldCount == Count(acc.content, replacement.OldAMI)
    IN  IF oldCount > 0
        THEN [content |-> ReplaceAll(acc.content, replacement.OldAMI, replacement.NewAMI),
              count   |-> acc.count + oldCount]
        ELSE acc

RECURSIVE ReplaceFrom(_, _, _)
ReplaceFrom(acc, reps, i) ==
    IF i > Len(reps) THEN acc
    ELSE ReplaceFrom(ReplaceStep(acc, reps[i]), reps, i + 1)

ReplaceAMIsInContent(text, reps) ==
    ReplaceFrom([content |-> text, count |-> 0], reps, 1)

----------------------------------------------------------------------------
(* Image Directory Query: ec2 DescribeImages, findAMIByID,                 *)
(* findAMIsByPattern.  A directory is the sequence of image records of one *)
(* (account, region) pair, in the order the provider returns them.         *)

Family == "bottlerocket-aws-ecs-2-aarch64-"

\* time.Parse(time.RFC3339, raw): the instant, or an error
ParseTime(raw) ==
    CASE raw = "2024-01-01T00:00:00Z"      -> [ok |-> TRUE, t |-> 1]
      [] raw = "2024-01-02T00:00:00Z"      -> [ok |-> TRUE, t |-> 2]
      [] raw = "2024-01-02T01:00:00+01:00" -> [ok |-> TRUE, t |-> 2]
      [] raw = "2024-01-03T00:00:00Z"      -> [ok |-> TRUE, t |-> 3]
      [] OTHER                             -> [ok |-> FALSE, t |-> 0]

\* provider-side name filter: "*" matches any sequence, the rest is literal
RECURSIVE GlobMatch(_, _)
GlobMatch(pattern, name) ==
    IF pattern = <<>> THEN name = <<>>
    ELSE IF Head(pattern) = "*"
         THEN \/ GlobMatch(Tail(pattern), name)
              \/ (name # <<>> /\ GlobMatch(pattern, Tail(name)))
         ELSE /\ name # <<>>
              /\ Head(name) = Head(pattern)
              /\ GlobMatch(Tail(pattern), Tail(name))

AMIInfo(image, t) == [ImageID |-> image.ImageId, Name |-> image.Name, CreationDate |-> t]

NoInfo == [ImageID |-> <<>>, Name |-> <<>>, CreationDate |-> 0]

\* DescribeImages with ImageIds = [amiID]
ImagesById(dir, amiID) == SelectSeq(dir, LAMBDA image : image.ImageId = amiID)

\* DescribeImages with the filter name = pattern
ImagesByName(dir, pattern) == SelectSeq(dir, LAMBDA image : GlobMatch(pattern, image.Name))

\* the outcomes of one exact-identifier DescribeImages call: the provider
\* answers, reports that the identifier does not exist, or fails otherwise
IdOutcomes(dir, amiID) ==
    {"ok", "error"} \cup (IF ImagesById(dir, amiID) = <<>> THEN {"notfound"} ELSE {})

\* the outcomes of one name-filter DescribeImages call
NameOutcomes == {"ok", "error"}

\* err: "none" | "notfound" (ErrAMINotFound) | "error" (DescribeImages failed)
\* | "parse" (the creation date of the record does not parse)
findAMIByID(dir, amiID, outcome) ==
    LET images == ImagesById(dir, amiID)
    IN  IF outcome = "notfound" THEN [err |-> "notfound", info |-> NoInfo]
        ELSE IF outcome = "error" THEN [err |-> "error", info |-> NoInfo]
        ELSE IF Len(images) = 0 THEN [err |-> "notfound", info |-> NoInfo]
        ELSE LET parsed == ParseTime(images[1].CreationDate)
             IN  IF ~parsed.ok THEN [err |-> "parse", info |-> NoInfo]
                 ELSE [err |-> "none", info |-> AMIInfo(images[1], parsed.t)]

RECURSIVE ParsedImages(_)
ParsedImages(images) ==
    IF images = <<>> THEN <<>>
    ELSE LET parsed == ParseTime(Head(images).CreationDate)
         IN  IF ~parsed.ok THEN ParsedImages(Tail(images))
             ELSE <<AMIInfo(Head(images), parsed.t)>> \o ParsedImages(Tail(images))

findAMIsByPattern(dir, pattern, outcome) ==
    IF outcome = "error" THEN [err |-> "error", amis |-> <<>>]
    ELSE [err |-> "none", amis |-> ParsedImages(ImagesByName(dir, pattern))]

----------------------------------------------------------------------------
(* Resolution Strategy: processPattern, processAMIID, processPatternBased  *)

Perms(n) == {p \in [1..n -> 1..n] : \A i, j \in 1..n : i # j => p[i] # p[j]}

\* the less function handed to sort.Slice
After(a, b) == a.CreationDate > b.CreationDate

\* sort.Slice is not a stable sort: any arrangement of the elements in which
\* no element sorts strictly before an earlier one
SortSlice(amis) ==
    {[i \in 1..Len(amis) |-> amis[p[i]]] : p \in
        {q \in Perms(Len(amis)) :
            \A i, j \in 1..Len(amis) : i < j => ~After(amis[q[j]], amis[q[i]])}}

\* mutant of OldToLatest: NewAMI is taken from the loop variable
OldToLatestSelf(rest, latest) ==
    [i \in 1..Len(rest) |-> AMIReplacement(rest[i].ImageID, rest[i].ImageID, rest[i].Name)]

RECURSIVE OldToLatest(_, _)
OldToLatest(rest, latest) ==
    IF rest = <<>> THEN <<>>
    ELSE <<AMIReplacement(Head(rest).ImageID, latest.ImageID, Head(rest).Name)>>
         \o OldToLatest(Tail(rest), latest)

\* A result records, beside the error and the replacements returned, what the
\* call saw: the error of the lookup by identifier ("n/a" in Mode B), the
\* record it found and the candidates as sorted.
Result(err, reps, lookup, info, amis) ==
    [err |-> err, reps |-> reps, lookup |-> lookup, info |-> info, amis |-> amis]

\* mutant of processPatternBased: the loop runs over amis, not amis[1:]
processPatternBasedAll(dir, pattern, nameOutcome) ==
    LET found == findAMIsByPattern(dir, pattern, nameOutcome)
    IN  IF found.err # "none" THEN {Result(TRUE, <<>>, "n/a", NoInfo, <<>>)}
        ELSE IF Len(found.amis) = 0 THEN {Result(FALSE, <<>>, "n/a", NoInfo, <<>>)}
        ELSE {Result(FALSE, OldToLatest(amis, amis[1]), "n/a", NoInfo, amis) :
                 amis \in SortSlice(found.amis)}

processPatternBased(dir, pattern, nameOutcome) ==
    LET found == findAMIsByPattern(dir, pattern, nameOutcome)
    IN  IF found.err # "none" THEN {Result(TRUE, <<>>, "n/a", NoInfo, <<>>)}
        ELSE IF Len(found.amis) = 0 THEN {Result(FALSE, <<>>, "n/a", NoInfo, <<>>)}
        ELSE {Result(FALSE, OldToLatest(Tail(amis), amis[1]), "n/a", NoInfo, amis) :
                 amis \in SortSlice(found.amis)}

DerivedPattern(name) ==
    IF Contains(name, <<Family>>) THEN <<Family, "*">> ELSE name

\* mutant of processAMIID: the mapping is emitted without comparing the
\* identifiers
processAMIIDAlways(dir, amiID, idOutcome, nameOutcome) ==
    LET amiInfo == findAMIByID(dir, amiID, idOutcome)
    IN  IF amiInfo.err = "notfound" THEN {Result(FALSE, <<>>, "notfound", NoInfo, <<>>)}
        ELSE IF amiInfo.err # "none" THEN {Result(TRUE, <<>>, amiInfo.err, NoInfo, <<>>)}
        ELSE LET found == findAMIsByPattern(dir, DerivedPattern(amiInfo.info.Name), nameOutcome)
             IN  IF found.err # "none" THEN {Result(TRUE, <<>>, "none", amiInfo.info, <<>>)}
                 ELSE IF Len(found.amis) = 0
                      THEN {Result(FALSE, <<>>, "none", amiInfo.info, <<>>)}
                 ELSE {Result(FALSE,
                              <<AMIReplacement(amiInfo.info.ImageID, amis[1].ImageID,
                                               amiInfo.info.Name)>>,
                              "none", amiInfo.info, amis) :
                          amis \in SortSlice(found.amis)}

\* mutant of processAMIID: ErrAMINotFound is returned like any other error
processAMIIDNotFoundFails(dir, amiID, idOutcome, nameOutcome) ==
    LET amiInfo == findAMIByID(dir, amiID, idOutcome)
    IN  IF amiInfo.err = "notfound" THEN {Result(TRUE, <<>>, "notfound", NoInfo, <<>>)}
        ELSE IF amiInfo.err # "none" THEN {Result(TRUE, <<>>, amiInfo.err, NoInfo, <<>>)}
        ELSE LET found == findAMIsByPattern(dir, DerivedPattern(amiInfo.info.Name), nameOutcome)
             IN  IF found.err # "none" THEN {Result(TRUE, <<>>, "none", amiInfo.info, <<>>)}
                 ELSE IF Len(found.amis) = 0
                      THEN {Result(FALSE, <<>>, "none", amiInfo.info, <<>>)}
                 ELSE {Result(FALSE,
                              IF amiInfo.info.ImageID # amis[1].ImageID
                              THEN <<AMIReplacement(amiInfo.info.ImageID, amis[1].ImageID,
                                                    amiInfo.info.Name)>>
                              ELSE <<>>,
                              "none", amiInfo.info, amis) :
                          amis \in SortSlice(found.amis)}

processAMIID(dir, amiID, idOutcome, nameOutcome) ==
    LET amiInfo == findAMIByID(dir, amiID, idOutcome)
    IN  IF amiInfo.err = "notfound" THEN {Result(FALSE, <<>>, "notfound", NoInfo, <<>>)}
        ELSE IF amiInfo.err # "none" THEN {Result(TRUE, <<>>, amiInfo.err, NoInfo, <<>>)}
        ELSE LET found == findAMIsByPattern(dir, DerivedPattern(amiInfo.info.Name), nameOutcome)
             IN  IF found.err # "none" THEN {Result(TRUE, <<>>, "none", amiInfo.info, <<>>)}
                 ELSE IF Len(found.amis) = 0
                      THEN {Result(FALSE, <<>>, "none", amiInfo.info, <<>>)}
                 ELSE {Result(FALSE,
                              IF amiInfo.info.ImageID # amis[1].ImageID
                              THEN <<AMIReplacement(amiInfo.info.ImageID, amis[1].ImageID,
                                                    amiInfo.info.Name)>>
                              ELSE <<>>,
                              "none", amiInfo.info, amis) :
                          amis \in SortSlice(found.amis)}

IsAMIID(pattern) == HasPrefix(pattern, <<"ami-">>)

\* mutant of processPattern: a token with a wildcard is a name pattern
processPatternWildcardsByName(dir, pattern, idOutcome, nameOutcome) ==
    IF IsAMIID(pattern) /\ ~Contains(pattern, <<"*">>)
    THEN processAMIID(dir, pattern, idOutcome, nameOutcome)
    ELSE processPatternBased(dir, pattern, nameOutcome)

processPattern(dir, pattern, idOutcome, nameOutcome) ==
    IF IsAMIID(pattern)
    THEN processAMIID(dir, pattern, idOutcome, nameOutcome)
    ELSE processPatternBased(dir, pattern, nameOutcome)

----------------------------------------------------------------------------
(* Replacement Planner: cmd collectAMIReplacements, processAccount and     *)
(* aws GetLatestAMIs, one action per step of the nested loops.             *)

Dir(account, region) == catalog[<<account, region>>]

\* processAccount: the regions are cfg.Regions, or the profile's region
BeginAccount ==
    /\ UNCHANGED resFrame
    /\ rpc = "account"
    /\ ai <= Len(cfgAccounts)
    /\ Len(cfgRegions) > 0 \/ profileRegion # ""
    /\ regions' = IF Len(cfgRegions) = 0 THEN <<profileRegion>> ELSE cfgRegions
    /\ accountReplacements' = <<>>
    /\ ri' = 1
    /\ rpc' = "region"
    /\ UNCHANGED <<ai, pi, replacements, allReplacements, pairs, calls>>

\* processAccount: GetRegion fails with ErrNoRegion, the account is given up
AccountNoRegion ==
    /\ UNCHANGED resFrame
    /\ rpc = "account"
    /\ ai <= Len(cfgAccounts)
    /\ Len(cfgRegions) = 0
    /\ profileRegion = ""
    /\ allReplacements' = allReplacements \o <<>>
    /\ ai' = ai + 1
    /\ UNCHANGED <<rpc, ri, pi, regions, replacements, accountReplacements, pairs, calls>>

\* GetLatestAMIs is called for the next region
BeginRegion ==
    /\ UNCHANGED resFrame
    /\ rpc = "region"
    /\ ri <= Len(regions)
    /\ replacements' = <<>>
    /\ pi' = 1
    /\ rpc' = "pattern"
    /\ UNCHANGED <<ai, ri, regions, accountReplacements, allReplacements, pairs, calls>>

\* mutant of ProcessPattern: on an error GetLatestAMIs returns the replacements
\* resolved so far and processAccount appends them
ProcessPatternKeepsPartial ==
    /\ UNCHANGED resFrame
    /\ rpc = "pattern"
    /\ pi <= Len(patterns)
    /\ LET account == cfgAccounts[ai]
           region  == regions[ri]
           dir     == Dir(account, region)
       IN  \E idOutcome \in IdOutcomes(dir, patterns[pi]), nameOutcome \in NameOutcomes :
           \E result \in processPattern(dir, patterns[pi], idOutcome, nameOutcome) :
              /\ calls' = Append(calls, [account |-> account, region |-> region,
                                          pattern |-> patterns[pi], result |-> result])
              /\ IF result.err
                 THEN /\ pairs' = Append(pairs, [account |-> account, region |-> region,
                                                  failed |-> TRUE, reps |-> replacements])
                      /\ accountReplacements' = accountReplacements \o replacements
                      /\ ri' = ri + 1
                      /\ rpc' = "region"
                      /\ UNCHANGED <<pi, replacements>>
                 ELSE /\ replacements' = replacements \o result.reps
                      /\ pi' = pi + 1
                      /\ UNCHANGED <<ri, rpc, pairs, accountReplacements>>
    /\ UNCHANGED <<ai, regions, allReplacements>>

\* GetLatestAMIs: one iteration of the loop over patterns.  An error makes
\* GetLatestAMIs return (nil, err); processAccount logs it and continues with
\* the next region.
ProcessPattern ==
    /\ UNCHANGED resFrame
    /\ rpc = "pattern"
    /\ pi <= Len(patterns)
    /\ LET account == cfgAccounts[ai]
           region  == regions[ri]
           dir     == Dir(account, region)
       IN  \E idOutcome \in IdOutcomes(dir, patterns[pi]), nameOutcome \in NameOutcomes :
           \E result \in processPattern(dir, patterns[pi], idOutcome, nameOutcome) :
              /\ calls' = Append(calls, [account |-> account, region |-> region,
                                          pattern |-> patterns[pi], result |-> result])
              /\ IF result.err
                 THEN /\ pairs' = Append(pairs, [account |-> account, region |-> region,
                                                  failed |-> TRUE, reps |-> <<>>])
                      /\ ri' = ri + 1
                      /\ rpc' = "region"
                      /\ UNCHANGED <<pi, replacements>>
                 ELSE /\ replacements' = replacements \o result.reps
                      /\ pi' = pi + 1
                      /\ UNCHANGED <<ri, rpc, pairs>>
    /\ UNCHANGED <<ai, regions, accountReplacements, allReplacements>>

\* GetLatestAMIs returns (replacements, nil)
EndRegion ==
    /\ UNCHANGED resFrame
    /\ rpc = "pattern"
    /\ pi > Len(patterns)
    /\ accountReplacements' = accountReplacements \o replacements
    /\ pairs' = Append(pairs, [account |-> cfgAccounts[ai], region |-> regions[ri],
                               failed |-> FALSE, reps |-> replacements])
    /\ ri' = ri + 1
    /\ rpc' = "region"
    /\ UNCHANGED <<ai, pi, regions, replacements, allReplacements, calls>>

\* mutant of EndAccount: a mapping the plan already holds is not appended
EndAccountDeduplicates ==
    /\ UNCHANGED resFrame
    /\ rpc = "region"
    /\ ri > Len(regions)
    /\ allReplacements' =
          allReplacements \o
          SelectSeq(accountReplacements,
                    LAMBDA m : \A i \in DOMAIN allReplacements : allReplacements[i] # m)
    /\ ai' = ai + 1
    /\ rpc' = "account"
    /\ UNCHANGED <<ri, pi, regions, replacements, accountReplacements, pairs, calls>>

\* processAccount returns accountReplacements
EndAccount ==
    /\ UNCHANGED resFrame
    /\ rpc = "region"
    /\ ri > Len(regions)
    /\ allReplacements' = allReplacements \o accountReplacements
    /\ ai' = ai + 1
    /\ rpc' = "account"
    /\ UNCHANGED <<ri, pi, regions, replacements, accountReplacements, pairs, calls>>

\* collectAMIReplacements returns allReplacements
EndCollect ==
    /\ UNCHANGED resFrame
    /\ rpc = "account"
    /\ ai > Len(cfgAccounts)
    /\ rpc' = "done"
    /\ UNCHANGED <<ai, ri, pi, regions, replacements, accountReplacements,
                   allReplacements, pairs, calls>>

ResStart ==
    /\ rpc = "account"
    /\ ai = 1
    /\ ri = 1
    /\ pi = 1
    /\ regions = <<>>
    /\ replacements = <<>>
    /\ accountReplacements = <<>>
    /\ allReplacements = <<>>
    /\ pairs = <<>>
    /\ calls = <<>>

ResIdle ==
    /\ cfgAccounts = <<>>
    /\ cfgRegions = <<>>
    /\ patterns = <<>>
    /\ profileRegion = ""
    /\ catalog = <<>>
    /\ rpc = "idle"
    /\ ai = 1
    /\ ri = 1
    /\ pi = 1
    /\ regions = <<>>
    /\ replacements = <<>>
    /\ accountReplacements = <<>>
    /\ allReplacements = <<>>
    /\ pairs = <<>>
    /\ calls = <<>>

ResNext ==
    \/ BeginAccount
    \/ AccountNoRegion
    \/ BeginRegion
    \/ ProcessPattern
    \/ EndRegion
    \/ EndAccount
    \/ EndCollect

----------------------------------------------------------------------------
(* The provider's data and the configurations the model draws from         *)

Accounts == {"111111111111", "222222222222"}
Regions == {"us-east-1", "us-west-2"}

Names == {<<"web-", "1">>, <<Family, "1">>, <<"x-", Family, "1">>}

RawDates == {"", "2024-01-01T00:00:00Z", "2024-01-02T00:00:00Z",
             "2024-01-02T01:00:00+01:00", "2024-01-03T00:00:00Z"}

Images == [ImageId : ImageIds, Name : Names, CreationDate : RawDates]

\* image identifiers are unique within a directory
DirsOfLen(n) ==
    {d \in [1..n -> Images] : \A i, j \in 1..n : i # j => d[i].ImageId # d[j].ImageId}

Dirs == UNION {DirsOfLen(n) : n \in 0..Cardinality(ImageIds)}

Globs == {<<"*">>, <<Family, "*">>}

\* a token with the identifier prefix and a wildcard
IdGlob == <<"ami-", "*">>

PatternTokens == ImageIds \cup Globs \cup {IdGlob}

\* one pair, one pattern, any directory
PatternInit ==
    /\ cfgAccounts = <<"111111111111">>
    /\ cfgRegions = <<"us-east-1">>
    /\ profileRegion = ""
    /\ \E token \in PatternTokens : patterns = <<token>>
    /\ \E d \in Dirs :
          catalog = [pair \in Accounts \X Regions |->
                        IF pair = <<"111111111111", "us-east-1">> THEN d ELSE <<>>]
    /\ ResStart

\* Whole runs of collectAMIReplacements: two accounts, two regions, several
\* patterns, over catalogs whose pairs differ (an empty directory, equal
\* timestamps, a timestamp that does not parse).
Image(id, name, date) == [ImageId |-> id, Name |-> name, CreationDate |-> date]

ImgA == Image(IdA, <<Family, "1">>, "2024-01-01T00:00:00Z")
ImgB == Image(IdB, <<Family, "1">>, "2024-01-02T00:00:00Z")
ImgAL == Image(IdAL, <<"web-", "1">>, "2024-01-03T00:00:00Z")

CatalogPlain ==
    [pair \in Accounts \X Regions |->
        CASE pair = <<"111111111111", "us-east-1">> -> <<ImgA, ImgB, ImgAL>>
          [] pair = <<"111111111111", "us-west-2">> -> <<ImgB, ImgA>>
          [] pair = <<"222222222222", "us-east-1">> -> <<>>
          [] OTHER                                  -> <<ImgAL, ImgB>>]

CatalogOdd ==
    [pair \in Accounts \X Regions |->
        CASE pair = <<"111111111111", "us-east-1">> ->
                 <<Image(IdA, <<Family, "1">>, "2024-01-02T01:00:00+01:00"), ImgB>>
          [] pair = <<"111111111111", "us-west-2">> ->
                 <<Image(IdA, <<Family, "1">>, ""), ImgB>>
          [] pair = <<"222222222222", "us-east-1">> -> <<ImgAL>>
          [] OTHER                                  -> <<ImgA, ImgB, ImgAL>>]

ResolveCatalogs == {CatalogPlain, CatalogOdd}

ResolveConfigs ==
    {[accounts |-> <<"111111111111">>, regions |-> <<"us-west-2">>, profile |-> ""],
     [accounts |-> <<"111111111111", "222222222222">>,
      regions |-> <<"us-east-1", "us-west-2">>, profile |-> ""],
     [accounts |-> <<"222222222222", "111111111111">>, regions |-> <<>>,
      profile |-> "us-east-1"],
     [accounts |-> <<"111111111111">>, regions |-> <<>>, profile |-> ""]}

ResolveTokens == {IdA, IdAL, <<Family, "*">>, <<"*">>}

ResolveInit ==
    /\ \E c \in ResolveConfigs :
          /\ cfgAccounts = c.accounts
          /\ cfgRegions = c.regions
          /\ profileRegion = c.profile
    /\ patterns \in SeqsUpTo(ResolveTokens, MaxPatterns)
    /\ catalog \in ResolveCatalogs
    /\ ResStart

----------------------------------------------------------------------------
(* File-Tree Mutator: fileprocessor ProcessFile, ProcessDirectory,         *)
(* collectFiles, processFiles, processSingleFile, updateFileWithBackup,    *)
(* isTextFile.  One action per file-system call.                           *)

Backup == ".backup"

BackupPath(path) == Append(path, Backup)

File(data) == [exists |-> TRUE, data |-> data]
NoFile == [exists |-> FALSE, data |-> <<>>]

\* os.WriteFile(path, data, FilePerm): the file is written; or it cannot be
\* opened and is left as it was; or it is opened (created, truncated) and the
\* write fails
WriteOutcomes ==
    {"ok"} \cup (IF faults < MaxFaults THEN {"failOpen", "failWrite"} ELSE {})

\* whether a call that can fail does: only while failures are left to inject
Failing == IF faults < MaxFaults THEN BOOLEAN ELSE {FALSE}

Fault(failed) == faults' = IF failed THEN faults + 1 ELSE faults

WriteFile(fsys, path, data, outcome) ==
    CASE outcome = "ok"        -> [fsys EXCEPT ![path] = File(data)]
      [] outcome = "failWrite" -> [fsys EXCEPT ![path] = File(<<>>)]
      [] OTHER                 -> fsys

TextExtensions ==
    {".yaml", ".yml", ".json", ".txt", ".tf", ".hcl", ".conf", ".cfg", ".ini", ".env",
     ".sh", ".bash", ".zsh", ".fish", ".ps1", ".bat", ".cmd", ".xml", ".toml"}

\* filepath.Ext: the last symbol of a path of several symbols is its extension
Ext(path) == IF Len(path) > 1 THEN path[Len(path)] ELSE ""

\* strings.ToLower on an extension
ToLower(ext) ==
    CASE ext = ".TF"   -> ".tf"
      [] ext = ".YAML" -> ".yaml"
      [] OTHER         -> ext

HexChars == {"a", "b", "c", "d", "e", "f", "0", "1", "2", "3", "4", "5", "6", "7", "8", "9"}

\* amiRegex.Match: "ami-" followed by at least ShortHex hex characters
AmiRegexMatch(text) ==
    \E i \in 1..(Len(text) - ShortHex) :
        /\ text[i] = "ami-"
        /\ \A k \in 1..ShortHex : text[i + k] \in HexChars

\* mutant of isTextFile: the extension is looked up as it is written
isTextFileCaseSensitive(fsys, path, readable) ==
    IF Ext(path) \in TextExtensions THEN TRUE
    ELSE IF ~readable THEN FALSE
    ELSE AmiRegexMatch(fsys[path].data)

\* readable: whether os.ReadFile succeeds on the file
isTextFile(fsys, path, readable) ==
    IF ToLower(Ext(path)) \in TextExtensions THEN TRUE
    ELSE IF ~readable THEN FALSE
    ELSE AmiRegexMatch(fsys[path].data)

\* the tree under the directory, in the lexical order filepath.Walk visits it
TreeFiles == <<<<"a", ".tf">>, <<"b", ".TF">>, <<"c">>>>

RECURSIVE WithBackups(_)
WithBackups(paths) ==
    IF paths = <<>> THEN <<>>
    ELSE <<Head(paths), BackupPath(Head(paths)), BackupPath(BackupPath(Head(paths)))>>
         \o WithBackups(Tail(paths))

\* a sub-directory of the tree, named like a text file
SubDir == <<"d", ".tf">>

\* info.IsDir() of a walked entry
IsDirEntry(path) == path = SubDir

WalkOrder == WithBackups(TreeFiles) \o <<SubDir>>

Paths == {WalkOrder[i] : i \in DOMAIN WalkOrder}

\* mutant of Collect: paths ending in the backup suffix are not skipped
RECURSIVE CollectBackupsToo(_, _, _)
CollectBackupsToo(fsys, entries, readable) ==
    IF entries = <<>> THEN <<>>
    ELSE LET path == Head(entries)
             rest == CollectBackupsToo(fsys, Tail(entries), readable)
         IN  IF ~fsys[path].exists THEN rest
             ELSE IF IsDirEntry(path) THEN rest
             ELSE IF isTextFile(fsys, path, readable) THEN <<path>> \o rest
             ELSE rest

\* collectFiles: the entries that exist, that are neither directories nor
\* backups and that isTextFile accepts, in walk order
RECURSIVE Collect(_, _, _)
Collect(fsys, entries, readable) ==
    IF entries = <<>> THEN <<>>
    ELSE LET path == Head(entries)
             rest == Collect(fsys, Tail(entries), readable)
         IN  IF ~fsys[path].exists THEN rest
             ELSE IF IsDirEntry(path) \/ HasSuffix(path, <<Backup>>) THEN rest
             ELSE IF isTextFile(fsys, path, readable) THEN <<path>> \o rest
             ELSE rest

NoStatus == [path \in Paths |-> "none"]

\* the entries whose content isTextFile reads: files that are not backups and
\* whose extension is not a text extension
ReadByWalk(fsys, path) ==
    /\ fsys[path].exists
    /\ ~IsDirEntry(path)
    /\ ~HasSuffix(path, <<Backup>>)
    /\ ToLower(Ext(path)) \notin TextExtensions

\* history: the entries the walk could not read are marked "unreadable"
WalkStatus(fsys, unreadable, old) ==
    [path \in Paths |->
        IF unreadable /\ ReadByWalk(fsys, path) THEN "unreadable" ELSE old[path]]

NoReport == [total |-> -1, files |-> -1]

Logged(path, outcome) == [path |-> path, ok |-> outcome = "ok"]

\* the plans handed to the Processor: runUpdate hands it no empty plan
FilePlans ==
    {<<AMIReplacement(IdA, IdB, <<"img">>)>>,
     <<AMIReplacement(IdB, IdAL, <<"img">>)>>,
     <<AMIReplacement(IdA, IdB, <<"img">>), AMIReplacement(IdB, IdAL, <<"img">>)>>}

\* a run begins: ProcessFile(path, plan)
BeginProcessFile ==
    /\ UNCHANGED fpFrame
    /\ fpc \in {"idle", "done"}
    /\ runs < MaxRuns
    /\ runs' = runs + 1
    /\ fs0' = fs
    /\ \E path \in {TreeFiles[i] : i \in DOMAIN TreeFiles} : filePath' = path
    /\ \E plan \in FilePlans : planArg' = plan
    /\ dirMode' = FALSE
    /\ fpc' = "pf_read"
    /\ files' = <<>>
    /\ fi' = 1
    /\ content' = <<>>
    /\ newContent' = <<>>
    /\ replaceCount' = 0
    /\ totalReplacements' = 0
    /\ retErr' = "running"
    /\ report' = NoReport
    /\ status' = NoStatus
    /\ writes' = <<>>
    /\ UNCHANGED <<fs, faults>>

\* mutant of ProcessFileRead: no early return when replaceCount is 0
ProcessFileReadAlwaysWrites ==
    /\ UNCHANGED fpFrame
    /\ fpc = "pf_read"
    /\ \E unreadable \in Failing :
          /\ Fault(unreadable)
          /\ IF unreadable \/ ~fs[filePath].exists
             THEN /\ retErr' = "read"
                  /\ status' = [status EXCEPT ![filePath] = "failedRead"]
                  /\ fpc' = "done"
                  /\ UNCHANGED <<content, newContent, replaceCount>>
             ELSE LET rewritten == ReplaceAMIsInContent(fs[filePath].data, planArg)
                  IN  /\ content' = fs[filePath].data
                      /\ newContent' = rewritten.content
                      /\ replaceCount' = rewritten.count
                      /\ fpc' = "pf_backup"
                      /\ UNCHANGED <<retErr, status>>
    /\ UNCHANGED <<fs, fs0, runs, dirMode, planArg, files, fi, filePath,
                   totalReplacements, report, writes>>

\* ProcessFile: os.ReadFile and the rewriting of what it read
ProcessFileRead ==
    /\ UNCHANGED fpFrame
    /\ fpc = "pf_read"
    /\ \E unreadable \in Failing :
          /\ Fault(unreadable)
          /\ IF unreadable \/ ~fs[filePath].exists
             THEN /\ retErr' = "read"
                  /\ status' = [status EXCEPT ![filePath] = "failedRead"]
                  /\ fpc' = "done"
                  /\ UNCHANGED <<content, newContent, replaceCount>>
             ELSE LET rewritten == ReplaceAMIsInContent(fs[filePath].data, planArg)
                  IN  /\ content' = fs[filePath].data
                      /\ newContent' = rewritten.content
                      /\ replaceCount' = rewritten.count
                      /\ IF rewritten.count = 0
                         THEN /\ retErr' = "nil"
                              /\ status' = [status EXCEPT ![filePath] = "unchanged"]
                              /\ fpc' = "done"
                         ELSE /\ fpc' = "pf_backup"
                              /\ UNCHANGED <<retErr, status>>
    /\ UNCHANGED <<fs, fs0, runs, dirMode, planArg, files, fi, filePath,
                   totalReplacements, report, writes>>

\* mutant of ProcessFileBackup: a backup that exists is not overwritten
ProcessFileBackupKeepsFirst ==
    /\ UNCHANGED fpFrame
    /\ fpc = "pf_backup"
    /\ \E outcome \in WriteOutcomes :
          /\ fs' = IF fs[BackupPath(filePath)].exists THEN fs
                   ELSE WriteFile(fs, BackupPath(filePath), content, outcome)
          /\ writes' = Append(writes, Logged(BackupPath(filePath), outcome))
          /\ Fault(outcome # "ok")
          /\ IF outcome = "ok"
             THEN /\ fpc' = "pf_write"
                  /\ UNCHANGED <<retErr, status>>
             ELSE /\ retErr' = "backup"
                  /\ status' = [status EXCEPT ![filePath] = "failedBackup"]
                  /\ fpc' = "done"
    /\ UNCHANGED <<fs0, runs, dirMode, planArg, files, fi, filePath, content, newContent,
                   replaceCount, totalReplacements, report>>

\* mutant of ProcessFileBackup: the backup is written with the rewritten
\* content
ProcessFileBackupOfNewContent ==
    /\ UNCHANGED fpFrame
    /\ fpc = "pf_backup"
    /\ \E outcome \in WriteOutcomes :
          /\ fs' = WriteFile(fs, BackupPath(filePath), newContent, outcome)
          /\ writes' = Append(writes, Logged(BackupPath(filePath), outcome))
          /\ Fault(outcome # "ok")
          /\ IF outcome = "ok"
             THEN /\ fpc' = "pf_write"
                  /\ UNCHANGED <<retErr, status>>
             ELSE /\ retErr' = "backup"
                  /\ status' = [status EXCEPT ![filePath] = "failedBackup"]
                  /\ fpc' = "done"
    /\ UNCHANGED <<fs0, runs, dirMode, planArg, files, fi, filePath, content, newContent,
                   replaceCount, totalReplacements, report>>

\* ProcessFile: os.WriteFile(backupPath, content)
ProcessFileBackup ==
    /\ UNCHANGED fpFrame
    /\ fpc = "pf_backup"
    /\ \E outcome \in WriteOutcomes :
          /\ fs' = WriteFile(fs, BackupPath(filePath), content, outcome)
          /\ writes' = Append(writes, Logged(BackupPath(filePath), outcome))
          /\ Fault(outcome # "ok")
          /\ IF outcome = "ok"
             THEN /\ fpc' = "pf_write"
                  /\ UNCHANGED <<retErr, status>>
             ELSE /\ retErr' = "backup"
                  /\ status' = [status EXCEPT ![filePath] = "failedBackup"]
                  /\ fpc' = "done"
    /\ UNCHANGED <<fs0, runs, dirMode, planArg, files, fi, filePath, content, newContent,
                   replaceCount, totalReplacements, report>>

\* ProcessFile: os.WriteFile(filePath, newContent)
ProcessFileWrite ==
    /\ UNCHANGED fpFrame
    /\ fpc = "pf_write"
    /\ \E outcome \in WriteOutcomes :
          /\ fs' = WriteFile(fs, filePath, newContent, outcome)
          /\ writes' = Append(writes, Logged(filePath, outcome))
          /\ Fault(outcome # "ok")
          /\ IF outcome = "ok"
             THEN /\ retErr' = "nil"
                  /\ status' = [status EXCEPT ![filePath] = "rewritten"]
             ELSE /\ retErr' = "write"
                  /\ status' = [status EXCEPT ![filePath] = "failedWrite"]
          /\ fpc' = "done"
    /\ UNCHANGED <<fs0, runs, dirMode, planArg, files, fi, filePath, content, newContent,
                   replaceCount, totalReplacements, report>>

\* a run begins: ProcessDirectory(dirPath, plan)
BeginProcessDirectory ==
    /\ UNCHANGED fpFrame
    /\ fpc \in {"idle", "done"}
    /\ runs < MaxRuns
    /\ runs' = runs + 1
    /\ fs0' = fs
    /\ \E plan \in FilePlans : planArg' = plan
    /\ dirMode' = TRUE
    /\ fpc' = "collect"
    /\ files' = <<>>
    /\ fi' = 1
    /\ filePath' = <<>>
    /\ content' = <<>>
    /\ newContent' = <<>>
    /\ replaceCount' = 0
    /\ totalReplacements' = 0
    /\ retErr' = "running"
    /\ report' = NoReport
    /\ status' = NoStatus
    /\ writes' = <<>>
    /\ UNCHANGED <<fs, faults>>

\* mutant of CollectFiles: after a traversal error the files are processed all
\* the same
CollectFilesKeepsGoing ==
    /\ UNCHANGED fpFrame
    /\ fpc = "collect"
    /\ \E walkErr \in Failing, unreadable \in Failing :
          /\ ~(walkErr /\ unreadable)
          /\ Fault(walkErr \/ unreadable)
          /\ files' = Collect(fs, WalkOrder, ~unreadable)
          /\ status' = WalkStatus(fs, unreadable, status)
          /\ fpc' = "ps_read"
          /\ retErr' = IF walkErr THEN "walk" ELSE retErr
    /\ fi' = 1
    /\ totalReplacements' = 0
    /\ UNCHANGED <<fs, fs0, runs, dirMode, planArg, filePath, content, newContent,
                   replaceCount, report, writes>>

\* ProcessDirectory: collectFiles walks the whole tree; an error on an entry
\* ends ProcessDirectory with that error
CollectFiles ==
    /\ UNCHANGED fpFrame
    /\ fpc = "collect"
    /\ \E walkErr \in Failing, unreadable \in Failing :
          /\ ~(walkErr /\ unreadable)
          /\ Fault(walkErr \/ unreadable)
          /\ IF walkErr
             THEN /\ retErr' = "walk"
                  /\ fpc' = "done"
                  /\ UNCHANGED <<files, status>>
             ELSE /\ files' = Collect(fs, WalkOrder, ~unreadable)
                  /\ status' = WalkStatus(fs, unreadable, status)
                  /\ fpc' = "ps_read"
                  /\ UNCHANGED retErr
    /\ fi' = 1
    /\ totalReplacements' = 0
    /\ UNCHANGED <<fs, fs0, runs, dirMode, planArg, filePath, content, newContent,
                   replaceCount, report, writes>>

\* processFiles, processSingleFile: os.ReadFile of the next file and the
\* rewriting of what it read; a failure is logged and the loop continues
SingleFileRead ==
    /\ UNCHANGED fpFrame
    /\ fpc = "ps_read"
    /\ fi <= Len(files)
    /\ filePath' = files[fi]
    /\ \E unreadable \in Failing :
          /\ Fault(unreadable)
          /\ IF unreadable \/ ~fs[files[fi]].exists
             THEN /\ status' = [status EXCEPT ![files[fi]] = "failedRead"]
                  /\ fi' = fi + 1
                  /\ UNCHANGED <<content, newContent, replaceCount, totalReplacements, fpc>>
             ELSE LET rewritten == ReplaceAMIsInContent(fs[files[fi]].data, planArg)
                  IN  /\ content' = fs[files[fi]].data
                      /\ newContent' = rewritten.content
                      /\ replaceCount' = rewritten.count
                      /\ IF rewritten.count > 0
                         THEN /\ fpc' = "uf_backup"
                              /\ UNCHANGED <<status, fi, totalReplacements>>
                         ELSE /\ status' = [status EXCEPT ![files[fi]] = "unchanged"]
                              /\ totalReplacements' = totalReplacements + rewritten.count
                              /\ fi' = fi + 1
                              /\ UNCHANGED fpc
    /\ UNCHANGED <<fs, fs0, runs, dirMode, planArg, files, retErr, report, writes>>

\* mutant of UpdateBackup: the error of the backup write is ignored
UpdateBackupIgnoresError ==
    /\ UNCHANGED fpFrame
    /\ fpc = "uf_backup"
    /\ \E outcome \in WriteOutcomes :
          /\ fs' = WriteFile(fs, BackupPath(filePath), content, outcome)
          /\ writes' = Append(writes, Logged(BackupPath(filePath), outcome))
          /\ Fault(outcome # "ok")
          /\ fpc' = "uf_write"
          /\ UNCHANGED <<status, fi>>
    /\ UNCHANGED <<fs0, runs, dirMode, planArg, files, filePath, content, newContent,
                   replaceCount, totalReplacements, retErr, report>>

\* updateFileWithBackup: os.WriteFile(backupPath, originalContent)
UpdateBackup ==
    /\ UNCHANGED fpFrame
    /\ fpc = "uf_backup"
    /\ \E outcome \in WriteOutcomes :
          /\ fs' = WriteFile(fs, BackupPath(filePath), content, outcome)
          /\ writes' = Append(writes, Logged(BackupPath(filePath), outcome))
          /\ Fault(outcome # "ok")
          /\ IF outcome = "ok"
             THEN /\ fpc' = "uf_write"
                  /\ UNCHANGED <<status, fi>>
             ELSE /\ status' = [status EXCEPT ![filePath] = "failedBackup"]
                  /\ fi' = fi + 1
                  /\ fpc' = "ps_read"
    /\ UNCHANGED <<fs0, runs, dirMode, planArg, files, filePath, content, newContent,
                   replaceCount, totalReplacements, retErr, report>>

\* mutant of UpdateWrite: the count of a file whose write failed is added to
\* the total
UpdateWriteCountsFailure ==
    /\ UNCHANGED fpFrame
    /\ fpc = "uf_write"
    /\ \E outcome \in WriteOutcomes :
          /\ fs' = WriteFile(fs, filePath, newContent, outcome)
          /\ writes' = Append(writes, Logged(filePath, outcome))
          /\ Fault(outcome # "ok")
          /\ status' = [status EXCEPT ![filePath] =
                           IF outcome = "ok" THEN "rewritten" ELSE "failedWrite"]
          /\ totalReplacements' = totalReplacements + replaceCount
    /\ fi' = fi + 1
    /\ fpc' = "ps_read"
    /\ UNCHANGED <<fs0, runs, dirMode, planArg, files, filePath, content, newContent,
                   replaceCount, retErr, report>>

\* updateFileWithBackup: os.WriteFile(file, newContent); on success
\* processFiles adds replaceCount to the total
UpdateWrite ==
    /\ UNCHANGED fpFrame
    /\ fpc = "uf_write"
    /\ \E outcome \in WriteOutcomes :
          /\ fs' = WriteFile(fs, filePath, newContent, outcome)
          /\ writes' = Append(writes, Logged(filePath, outcome))
          /\ Fault(outcome # "ok")
          /\ IF outcome = "ok"
             THEN /\ status' = [status EXCEPT ![filePath] = "rewritten"]
                  /\ totalReplacements' = totalReplacements + replaceCount
             ELSE /\ status' = [status EXCEPT ![filePath] = "failedWrite"]
                  /\ UNCHANGED totalReplacements
    /\ fi' = fi + 1
    /\ fpc' = "ps_read"
    /\ UNCHANGED <<fs0, runs, dirMode, planArg, files, filePath, content, newContent,
                   replaceCount, retErr, report>>

\* ProcessDirectory: the totals are logged and nil is returned
DirectoryDone ==
    /\ UNCHANGED fpFrame
    /\ fpc = "ps_read"
    /\ fi > Len(files)
    /\ report' = [total |-> totalReplacements, files |-> Len(files)]
    /\ retErr' = "nil"
    /\ fpc' = "done"
    /\ UNCHANGED <<fs, fs0, runs, faults, dirMode, planArg, files, fi, filePath, content,
                   newContent, replaceCount, totalReplacements, status, writes>>

FpNext ==
    \/ BeginProcessFile
    \/ ProcessFileRead
    \/ ProcessFileBackup
    \/ ProcessFileWrite
    \/ BeginProcessDirectory
    \/ CollectFiles
    \/ SingleFileRead
    \/ UpdateBackup
    \/ UpdateWrite
    \/ DirectoryDone

\* the trees the runs start from: every file of the tree holds no identifier,
\* the identifier IdA or the identifier IdB; a backup of the first file may
\* be left from an earlier run
FileTexts == {<<"x">>, IdA, IdB}

InitialTrees ==
    {[path \in Paths |->
         IF \E i \in DOMAIN TreeFiles : path = TreeFiles[i] THEN File(texts[path])
         ELSE IF path = BackupPath(TreeFiles[1]) /\ old THEN File(<<"o">>)
         ELSE IF IsDirEntry(path) THEN File(<<>>)
         ELSE NoFile] :
        texts \in [{TreeFiles[i] : i \in DOMAIN TreeFiles} -> FileTexts], old \in BOOLEAN}

FpStart ==
    /\ fs0 = fs
    /\ runs = 0
    /\ faults = 0
    /\ fpc = "idle"
    /\ dirMode = FALSE
    /\ planArg = <<>>
    /\ files = <<>>
    /\ fi = 1
    /\ filePath = <<>>
    /\ content = <<>>
    /\ newContent = <<>>
    /\ replaceCount = 0
    /\ totalReplacements = 0
    /\ retErr = "nil"
    /\ report = NoReport
    /\ status = NoStatus
    /\ writes = <<>>

FpIdle ==
    /\ fs = [path \in Paths |-> NoFile]
    /\ FpStart

FilesInit ==
    /\ fs \in InitialTrees
    /\ FpStart

\* runUpdate is not running
\* a setting of the configuration: specified with a value, or not specified
Given(value) == [given |-> TRUE, value |-> value]
NotGiven == [given |-> FALSE, value |-> <<>>]

RunIdle ==
    /\ cfgFile = <<>>
    /\ cfgPatterns = <<>>
    /\ userRegions = NotGiven
    /\ upc = "idle"
    /\ runErr = "nil"
    /\ runLog = ""

----------------------------------------------------------------------------
(* Rewriter harness: any content, any plan, applied once and then again    *)

Words == ImageIds \cup {<<" ">>}

RECURSIVE Texts(_)
Texts(n) == IF n = 0 THEN {<<>>}
            ELSE Texts(n - 1) \cup {t \o w : t \in Texts(n - 1), w \in Words}

Mappings ==
    {m \in {AMIReplacement(o, n, <<"img">>) : o \in ImageIds, n \in ImageIds} :
        m.OldAMI # m.NewAMI}

NoResult == [content |-> <<>>, count |-> -1]

RwIdle ==
    /\ rwPc = "idle"
    /\ rwContent = <<>>
    /\ rwPlan = <<>>
    /\ rwFirst = NoResult
    /\ rwSecond = NoResult

RwInit ==
    /\ rwPc = "start"
    /\ rwContent \in Texts(MaxWords)
    /\ rwPlan \in SeqsUpTo(Mappings, MaxPlan)
    /\ rwFirst = NoResult
    /\ rwSecond = NoResult

RewriteOnce ==
    /\ UNCHANGED rwFrame
    /\ rwPc = "start"
    /\ rwFirst' = ReplaceAMIsInContent(rwContent, rwPlan)
    /\ rwPc' = "once"
    /\ UNCHANGED <<rwContent, rwPlan, rwSecond>>

RewriteAgain ==
    /\ UNCHANGED rwFrame
    /\ rwPc = "once"
    /\ rwSecond' = ReplaceAMIsInContent(rwFirst.content, rwPlan)
    /\ rwPc' = "twice"
    /\ UNCHANGED <<rwContent, rwPlan, rwFirst>>

RwNext == RewriteOnce \/ RewriteAgain

InitRewrite == ResIdle /\ RwInit /\ FpIdle /\ RunIdle

SpecRewrite == InitRewrite /\ [][RwNext]_vars

\* with regions configured, GetRegion is never called
PatternNext ==
    \/ BeginAccount
    \/ BeginRegion
    \/ ProcessPattern
    \/ EndRegion
    \/ EndAccount
    \/ EndCollect

InitPattern == PatternInit /\ RwIdle /\ FpIdle /\ RunIdle

InitResolve == ResolveInit /\ RwIdle /\ FpIdle /\ RunIdle

InitFiles == ResIdle /\ RwIdle /\ FilesInit /\ RunIdle

SpecFiles == InitFiles /\ [][FpNext]_vars

SpecResolve == InitResolve /\ [][ResNext]_vars

SpecPattern == InitPattern /\ [][PatternNext]_vars

----------------------------------------------------------------------------
(* The run: cmd runUpdate, loadAndValidateConfig, createClients,           *)
(* getFileInfoAndPatterns, processFiles.  It calls the Replacement Planner *)
(* and then the File-Tree Mutator.                                         *)

\* the directory the tree is under
Root == <<".">>

\* ami-[a-f0-9]{8,17}: the length of the leftmost longest match at i, or 0
RECURSIVE HexRun(_, _)
HexRun(text, i) ==
    IF i <= Len(text) /\ text[i] \in HexChars THEN 1 + HexRun(text, i + 1) ELSE 0

MatchLen(text, i) ==
    IF text[i] = "ami-" /\ HexRun(text, i + 1) >= ShortHex
    THEN 1 + (IF HexRun(text, i + 1) > LongHex THEN LongHex ELSE HexRun(text, i + 1))
    ELSE 0

\* amiRegex.FindAllString(content, -1): the non-overlapping matches from i on
RECURSIVE FindAllString(_, _)
FindAllString(text, i) ==
    IF i > Len(text) THEN {}
    ELSE IF MatchLen(text, i) > 0
         THEN {SubSeq(text, i, i + MatchLen(text, i) - 1)}
              \cup FindAllString(text, i + MatchLen(text, i))
         ELSE FindAllString(text, i + 1)

\* ExtractAMIPatterns: the matches without duplicates, in the order the
\* iteration over the map yields them, which is any order
ExtractAMIPatterns(text) ==
    LET amiMap == FindAllString(text, 1)
        n      == Cardinality(amiMap)
    IN  {amis \in [1..n -> amiMap] : \A i, j \in 1..n : i # j => amis[i] # amis[j]}

loadFrame == <<cfgAccounts, profileRegion, catalog, rwVars, cfgFile, cfgPatterns,
               userRegions>>

runFrame == <<loadFrame, cfgRegions>>

\* LoadConfig: viper.SetDefault("regions", ...)
DefaultRegions == <<"us-east-1", "us-west-2">>

\* LoadConfig: viper.Unmarshal gives cfg.Regions the regions specified, or the
\* default where none is
LoadConfigRegions(specified) ==
    IF specified.given THEN specified.value ELSE DefaultRegions

\* mutant of LoadAndValidateConfig: ValidateConfig does not look at the
\* target path
LoadAndValidateConfigNoFileCheck ==
    /\ UNCHANGED <<loadFrame, resVars, fpVars, patterns>>
    /\ upc = "start"
    /\ \E loadErr \in BOOLEAN :
          /\ runErr' = IF loadErr THEN "load"
                       ELSE IF Len(cfgAccounts) = 0 THEN "ErrNoAccountID"
                       ELSE "running"
          /\ cfgRegions' = IF loadErr THEN cfgRegions
                           ELSE LoadConfigRegions(userRegions)
    /\ upc' = IF runErr' = "running" THEN "clients" ELSE "done"
    /\ UNCHANGED runLog

\* loadAndValidateConfig: LoadConfig, then ValidateConfig
LoadAndValidateConfig ==
    /\ UNCHANGED <<loadFrame, resVars, fpVars, patterns>>
    /\ upc = "start"
    /\ \E loadErr \in BOOLEAN :
          /\ runErr' = IF loadErr THEN "load"
                       ELSE IF Len(cfgAccounts) = 0 THEN "ErrNoAccountID"
                       ELSE IF cfgFile = <<>> THEN "ErrNoFilePath"
                       ELSE "running"
          /\ cfgRegions' = IF loadErr THEN cfgRegions
                           ELSE LoadConfigRegions(userRegions)
    /\ upc' = IF runErr' = "running" THEN "clients" ELSE "done"
    /\ UNCHANGED runLog

\* createClients: aws.NewClient may fail to load the AWS configuration
CreateClients ==
    /\ UNCHANGED <<runFrame, resVars, fpVars, patterns>>
    /\ upc = "clients"
    /\ \E clientErr \in BOOLEAN :
          /\ runErr' = IF clientErr THEN "client" ELSE "running"
          /\ upc' = IF clientErr THEN "done" ELSE "fileinfo"
    /\ UNCHANGED runLog

IsDir(path) == path = Root

Exists(fsys, path) == IsDir(path) \/ (path \in Paths /\ fsys[path].exists)

\* getFileInfoAndPatterns: os.Stat(cfg.File); for a file the patterns are the
\* identifiers FindAMIsInFile extracts from it, for a directory cfg.Patterns.
\* collectAMIReplacements is called next.
GetFileInfoAndPatterns ==
    /\ UNCHANGED runFrame
    /\ upc = "fileinfo"
    /\ IF ~Exists(fs, cfgFile)
       THEN /\ runErr' = "stat"
            /\ upc' = "done"
            /\ UNCHANGED <<patterns, rpc, faults>>
       ELSE IF IsDir(cfgFile)
       THEN /\ patterns' = cfgPatterns
            /\ upc' = "collect"
            /\ rpc' = "account"
            /\ UNCHANGED <<runErr, faults>>
       ELSE \E unreadable \in Failing :
               /\ Fault(unreadable)
               /\ IF unreadable
                  THEN /\ runErr' = "find"
                       /\ upc' = "done"
                       /\ UNCHANGED <<patterns, rpc>>
                  ELSE /\ patterns' \in ExtractAMIPatterns(fs[cfgFile].data)
                       /\ upc' = "collect"
                       /\ rpc' = "account"
                       /\ UNCHANGED runErr
    /\ UNCHANGED <<ai, ri, pi, regions, replacements, accountReplacements,
                   allReplacements, pairs, calls>>
    /\ UNCHANGED <<fs, fs0, runs, fpc, dirMode, planArg, files, fi, filePath, content,
                   newContent, replaceCount, totalReplacements, retErr, report, status,
                   writes>>
    /\ UNCHANGED runLog

\* mutant of NoReplacementsFound: an empty plan is returned as an error
NoReplacementsFoundFails ==
    /\ UNCHANGED <<runFrame, resVars, fpVars, patterns>>
    /\ upc = "collect"
    /\ rpc = "done"
    /\ Len(allReplacements) = 0
    /\ runLog' = "No AMI replacements found"
    /\ runErr' = "noReplacements"
    /\ upc' = "done"

\* runUpdate: collectAMIReplacements returned no replacement
NoReplacementsFound ==
    /\ UNCHANGED <<runFrame, resVars, fpVars, patterns>>
    /\ upc = "collect"
    /\ rpc = "done"
    /\ Len(allReplacements) = 0
    /\ runLog' = "No AMI replacements found"
    /\ runErr' = "nil"
    /\ upc' = "done"

\* processFiles: ProcessDirectory or ProcessFile is called on cfg.File with
\* the plan
CallProcessFiles ==
    /\ UNCHANGED <<runFrame, resVars, patterns>>
    /\ upc = "collect"
    /\ rpc = "done"
    /\ Len(allReplacements) > 0
    /\ upc' = "process"
    /\ runs' = runs + 1
    /\ fs0' = fs
    /\ planArg' = allReplacements
    /\ dirMode' = IsDir(cfgFile)
    /\ fpc' = IF IsDir(cfgFile) THEN "collect" ELSE "pf_read"
    /\ filePath' = IF IsDir(cfgFile) THEN <<>> ELSE cfgFile
    /\ files' = <<>>
    /\ fi' = 1
    /\ content' = <<>>
    /\ newContent' = <<>>
    /\ replaceCount' = 0
    /\ totalReplacements' = 0
    /\ retErr' = "running"
    /\ report' = NoReport
    /\ status' = NoStatus
    /\ writes' = <<>>
    /\ UNCHANGED <<fs, faults, runErr, runLog>>

\* mutant of ProcessFilesReturn: the error of the Processor is dropped
ProcessFilesReturnNil ==
    /\ UNCHANGED <<runFrame, resVars, fpVars, patterns>>
    /\ upc = "process"
    /\ fpc = "done"
    /\ runErr' = "nil"
    /\ runLog' = "Successfully processed"
    /\ upc' = "done"

\* processFiles returns the error wrapped, runUpdate returns it; or both
\* return nil
ProcessFilesReturn ==
    /\ UNCHANGED <<runFrame, resVars, fpVars, patterns>>
    /\ upc = "process"
    /\ fpc = "done"
    /\ runErr' = IF retErr = "nil" THEN "nil" ELSE "process"
    /\ runLog' = IF retErr = "nil" THEN "Successfully processed" ELSE runLog
    /\ upc' = "done"

RunNext ==
    \/ LoadAndValidateConfig
    \/ CreateClients
    \/ GetFileInfoAndPatterns
    \/ BeginAccount
    \/ AccountNoRegion
    \/ BeginRegion
    \/ ProcessPattern
    \/ EndRegion
    \/ EndAccount
    \/ EndCollect
    \/ NoReplacementsFound
    \/ CallProcessFiles
    \/ ProcessFileRead
    \/ ProcessFileBackup
    \/ ProcessFileWrite
    \/ CollectFiles
    \/ SingleFileRead
    \/ UpdateBackup
    \/ UpdateWrite
    \/ DirectoryDone
    \/ ProcessFilesReturn

\* the configurations of a run: no account, one pair, two accounts with two
\* regions, an empty list of regions without and with a region of the profile,
\* no regions specified
RunConfigs ==
    {[accounts |-> <<>>, regions |-> Given(<<"us-east-1">>), profile |-> ""],
     [accounts |-> <<"111111111111">>, regions |-> Given(<<"us-east-1">>), profile |-> ""],
     [accounts |-> <<"111111111111", "222222222222">>,
      regions |-> Given(<<"us-east-1", "us-west-2">>), profile |-> ""],
     [accounts |-> <<"111111111111">>, regions |-> Given(<<>>), profile |-> ""],
     [accounts |-> <<"111111111111">>, regions |-> Given(<<>>), profile |-> "us-west-2"],
     [accounts |-> <<"111111111111">>, regions |-> NotGiven, profile |-> "us-west-2"]}

\* cfg.File: not set, the directory, a file of the tree, a path that does
\* not exist
RunFiles == {<<>>, Root, TreeFiles[3], <<"m">>}

\* cfg.Patterns: none, a name pattern, an identifier and a name pattern
RunPatterns == {<<>>, <<<<Family, "*">>>>, <<IdA, <<Family, "*">>>>}

RunTrees ==
    {t \in InitialTrees :
        /\ t[TreeFiles[2]].data = <<"x">>
        /\ t[TreeFiles[1]].data # IdB
        /\ t[TreeFiles[3]].data # IdB
        /\ ~t[BackupPath(TreeFiles[1])].exists}

RunInit ==
    /\ \E c \in RunConfigs :
          /\ cfgAccounts = c.accounts
          /\ userRegions = c.regions
          /\ profileRegion = c.profile
    /\ cfgRegions = <<>>
    /\ cfgFile \in RunFiles
    /\ cfgPatterns \in RunPatterns
    /\ catalog \in ResolveCatalogs
    /\ fs \in RunTrees
    /\ patterns = <<>>
    /\ rpc = "idle"
    /\ ai = 1
    /\ ri = 1
    /\ pi = 1
    /\ regions = <<>>
    /\ replacements = <<>>
    /\ accountReplacements = <<>>
    /\ allReplacements = <<>>
    /\ pairs = <<>>
    /\ calls = <<>>
    /\ FpStart
    /\ upc = "start"
    /\ runErr = "running"
    /\ runLog = ""

InitRun == RunInit /\ RwIdle

SpecRun == InitRun /\ [][RunNext]_vars

----------------------------------------------------------------------------
(* Properties *)

Range(f) == {f[i] : i \in DOMAIN f}

\* the last processPattern call, as the properties read it
Called == calls # <<>>
last == calls[Len(calls)]
LastDir == Dir(last.account, last.region)
LastReps == last.result.reps

\* the candidates of a name-filter query: the records returned whose creation
\* timestamp parses
Candidates(dir, pattern) == Range(ParsedImages(ImagesByName(dir, pattern)))

DistinctStamps(cands) ==
    \A c, d \in cands : c # d => c.CreationDate # d.CreationDate

Newest(cands) == {c \in cands : \A d \in cands : c.CreationDate >= d.CreationDate}

ModeBAnswered == Called /\ ~IsAMIID(last.pattern) /\ ~last.result.err

\* C1: Mode B completeness.  When the name-filter query of processPatternBased
\* returns N >= 1 candidates with pairwise distinct creation timestamps, it
\* emits exactly N-1 mappings, each from a non-latest candidate (its identifier
\* and its name) to the candidate with the greatest timestamp; every non-latest
\* candidate is old exactly once and the latest never is.  With no candidate
\* it emits nothing.
ModeBCompleteness ==
    ModeBAnswered =>
        LET cands == Candidates(LastDir, last.pattern)
        IN  /\ cands = {} => LastReps = <<>>
            /\ (cands # {} /\ DistinctStamps(cands)) =>
                  \E latest \in Newest(cands) :
                     /\ Len(LastReps) = Cardinality(cands) - 1
                     /\ \A i \in DOMAIN LastReps :
                           /\ LastReps[i].NewAMI = latest.ImageID
                           /\ LastReps[i].OldAMI # latest.ImageID
                           /\ \E c \in cands \ {latest} :
                                 /\ LastReps[i].OldAMI = c.ImageID
                                 /\ LastReps[i].Name = c.Name
                     /\ \A c \in cands \ {latest} :
                           Cardinality({i \in DOMAIN LastReps :
                                           LastReps[i].OldAMI = c.ImageID}) = 1

\* C1 witness: three candidates with distinct timestamps, the latest not the
\* first the query returned, two mappings emitted
ModeBThreeCandidates ==
    /\ ModeBAnswered
    /\ Cardinality(Candidates(LastDir, last.pattern)) = 3
    /\ DistinctStamps(Candidates(LastDir, last.pattern))
    /\ ImagesByName(LastDir, last.pattern)[1].ImageId # LastReps[1].NewAMI
    /\ Len(LastReps) = 2

\* Mode A was taken, the exact-identifier lookup found the image and the
\* re-query by the derived pattern was answered
ModeAFound == Called /\ IsAMIID(last.pattern) /\ ~last.result.err /\ last.result.info # NoInfo

\* C2: Mode A single-step.  For an identifier X found in the directory
\* processAMIID emits at most one mapping: exactly one, from X to a most recent
\* candidate of the re-query by the pattern derived from X's name and with X's
\* name, when that candidate is not X, and none when it is X.
ModeASingleStep ==
    ModeAFound =>
        LET x     == ImagesById(LastDir, last.pattern)[1]
            cands == Candidates(LastDir, DerivedPattern(x.Name))
        IN  /\ Len(LastReps) <= 1
            /\ cands # {} =>
                  \E latest \in Newest(cands) :
                     /\ latest.ImageID # last.pattern =>
                           LastReps = <<AMIReplacement(last.pattern, latest.ImageID, x.Name)>>
                     /\ latest.ImageID = last.pattern => LastReps = <<>>

\* C2 witness: X is found, the re-query returns X and a newer image, one
\* mapping is emitted
ModeAOneMapping ==
    /\ ModeAFound
    /\ Len(LastReps) = 1
    /\ \E c \in Candidates(LastDir, DerivedPattern(ImagesById(LastDir, last.pattern)[1].Name)) :
          c.ImageID = last.pattern

\* C6 (as claimed): for every content and every plan, applying the plan to the
\* content it has already rewritten leaves it unchanged with a count of 0.
RewriteIdempotent ==
    rwPc = "twice" => rwSecond = [content |-> rwFirst.content, count |-> 0]

OldAbsent(text, plan) ==
    \A i \in DOMAIN plan : ~Contains(text, plan[i].OldAMI)

\* C7: no-op on non-matching content.  When no mapping's old identifier
\* occurs in the content, ReplaceAMIsInContent returns the content unchanged
\* and a count of 0, for every plan.
NoOpOnNonMatching ==
    (rwPc \in {"once", "twice"} /\ OldAbsent(rwContent, rwPlan)) =>
        rwFirst = [content |-> rwContent, count |-> 0]

\* C7 witness: a plan of two mappings applied to a content that holds another
\* identifier, the new identifier of a mapping, and none of the old ones
NoOpOnOtherIdentifier ==
    /\ rwPc = "once"
    /\ Len(rwPlan) = 2
    /\ OldAbsent(rwContent, rwPlan)
    /\ Contains(rwContent, rwPlan[1].NewAMI)

\* a ProcessPattern step is being taken (no other action is enabled here)
AtPattern == rpc = "pattern" /\ pi <= Len(patterns)

\* C8: Mode A not-found is not an error.  When the exact-identifier lookup
\* reports that the identifier does not exist (a not-found error or an empty
\* result), processAMIID returns no mapping and no error, and GetLatestAMIs
\* stays in the same (account, region) pair, goes on to the next pattern and
\* keeps the mappings it has resolved for the pair.
NotFoundIsNotAnError ==
    [][(AtPattern /\ calls' # calls /\ calls'[Len(calls')].result.lookup = "notfound") =>
          /\ ~calls'[Len(calls')].result.err
          /\ calls'[Len(calls')].result.reps = <<>>
          /\ replacements' = replacements
          /\ pi' = pi + 1
          /\ rpc' = "pattern"
          /\ <<ai', ri'>> = <<ai, ri>>
          /\ pairs' = pairs]_vars

\* C8 witness: the second pattern of a pair is an identifier its directory
\* does not hold, after the first pattern resolved a mapping; the pair then
\* returns that mapping
NotFoundAfterMapping ==
    /\ Called
    /\ last.result.lookup = "notfound"
    /\ Dir(last.account, last.region) # <<>>
    /\ Len(patterns) = 2
    /\ pairs # <<>>
    /\ pairs[Len(pairs)].account = last.account
    /\ pairs[Len(pairs)].region = last.region
    /\ ~pairs[Len(pairs)].failed
    /\ pairs[Len(pairs)].reps # <<>>

RECURSIVE Concat(_)
Concat(seqs) == IF seqs = <<>> THEN <<>> ELSE Head(seqs) \o Concat(Tail(seqs))

\* the (account, region) pairs of the configuration, accounts outer
EffectiveRegions ==
    IF Len(cfgRegions) > 0 THEN cfgRegions
    ELSE IF profileRegion # "" THEN <<profileRegion>> ELSE <<>>

ConfiguredPairs ==
    Concat([a \in DOMAIN cfgAccounts |->
               [r \in DOMAIN EffectiveRegions |->
                   <<cfgAccounts[a], EffectiveRegions[r]>>]])

CallsOf(account, region) ==
    SelectSeq(calls, LAMBDA c : c.account = account /\ c.region = region)

\* C9: a per-pair query failure is isolated.  A pair one of whose queries
\* failed (other than not-found) contributes no mapping, not even those its
\* earlier patterns resolved; every other pair is resolved for every pattern
\* and contributes all its mappings; and collectAMIReplacements always ends
\* with the plan made of the contributions of all the configured pairs.
PairFailureIsolated ==
    /\ \A k \in DOMAIN pairs :
          LET cs == CallsOf(pairs[k].account, pairs[k].region)
          IN  /\ pairs[k].failed <=> \E i \in DOMAIN cs : cs[i].result.err
              /\ pairs[k].failed => pairs[k].reps = <<>>
              /\ ~pairs[k].failed =>
                    /\ [i \in DOMAIN cs |-> cs[i].pattern] = patterns
                    /\ pairs[k].reps = Concat([i \in DOMAIN cs |-> cs[i].result.reps])
    /\ rpc = "done" =>
          /\ [k \in DOMAIN pairs |-> <<pairs[k].account, pairs[k].region>>] = ConfiguredPairs
          /\ allReplacements = Concat([k \in DOMAIN pairs |-> pairs[k].reps])
    /\ rpc \in {"account", "region", "pattern", "done"}

\* C9 witness: a run ends in which a pair failed on its second pattern after
\* its first resolved a mapping, and a later pair contributed its mappings
FailedPairAmongOthers ==
    /\ rpc = "done"
    /\ \E k \in DOMAIN pairs :
          /\ pairs[k].failed
          /\ \E i \in DOMAIN calls :
                /\ calls[i].account = pairs[k].account
                /\ calls[i].region = pairs[k].region
                /\ calls[i].result.reps # <<>>
          /\ \E j \in DOMAIN pairs : j > k /\ ~pairs[j].failed /\ pairs[j].reps # <<>>
    /\ allReplacements # <<>>

Target(backupPath) == SubSeq(backupPath, 1, Len(backupPath) - 1)

IsBackup(path) == HasSuffix(path, <<Backup>>)

\* C3: backup-before-write ordering, in ProcessFile and in the directory
\* path alike.  Every write to a file comes after a successful write to its
\* backup in the same run, and after a failed backup write the file is never
\* written and holds what it held when the run began.
BackupBeforeWrite ==
    /\ \A j \in DOMAIN writes :
          ~IsBackup(writes[j].path) =>
              \E i \in 1..(j - 1) :
                 writes[i].path = BackupPath(writes[j].path) /\ writes[i].ok
    /\ \A i \in DOMAIN writes :
          (IsBackup(writes[i].path) /\ ~writes[i].ok) =>
              /\ \A j \in DOMAIN writes : writes[j].path # Target(writes[i].path)
              /\ fs[Target(writes[i].path)] = fs0[Target(writes[i].path)]

\* C3 witness: a directory run has ended in which the backup write of one
\* file failed and another file was rewritten
BackupFailedInDirectory ==
    /\ fpc = "done"
    /\ dirMode
    /\ \E i \in DOMAIN writes : IsBackup(writes[i].path) /\ ~writes[i].ok
    /\ \E path \in Paths : status[path] = "rewritten"

WasRead(path) == status[path] \in {"unchanged", "rewritten", "failedBackup", "failedWrite"}

Substitutions(path) == ReplaceAMIsInContent(fs0[path].data, planArg).count

\* C4: when rewriting the content of a file yields zero substitutions, its
\* processing (ProcessFile or processSingleFile) makes no write: the file and
\* its backup path are as they were, no write was attempted on either, and
\* the processing reports success.
NoWriteWithoutSubstitution ==
    \A path \in Paths :
        (WasRead(path) /\ Substitutions(path) = 0) =>
            /\ status[path] = "unchanged"
            /\ fs[path] = fs0[path]
            /\ fs[BackupPath(path)] = fs0[BackupPath(path)]
            /\ \A i \in DOMAIN writes :
                  writes[i].path # path /\ writes[i].path # BackupPath(path)
            /\ (~dirMode /\ fpc = "done") => retErr = "nil"

\* C4 witness: ProcessFile has returned on a file that needed no substitution
\* and whose backup from an earlier run is still there
UnchangedFileKeepsBackup ==
    /\ fpc = "done"
    /\ ~dirMode
    /\ status[filePath] = "unchanged"
    /\ fs[BackupPath(filePath)].exists

\* C5: after a file is mutated (at least one substitution, both writes
\* succeed) its backup holds exactly the bytes the file held before this
\* mutation, whatever backup there was, and the file holds exactly the
\* rewritten content; in every run of any sequence of runs.
BackupHoldsPreviousBytes ==
    \A path \in Paths :
        status[path] = "rewritten" =>
            /\ Substitutions(path) > 0
            /\ fs[BackupPath(path)] = File(fs0[path].data)
            /\ fs[path] = File(ReplaceAMIsInContent(fs0[path].data, planArg).content)

\* C5 witness: the second run mutates a file the first run had mutated, and
\* replaces the backup the first run made
SecondMutationReplacesBackup ==
    /\ runs = 2
    /\ \E path \in Paths :
          /\ status[path] = "rewritten"
          /\ fs0[BackupPath(path)].exists
          /\ fs0[BackupPath(path)].data \in {IdA, IdB}
          /\ fs[BackupPath(path)] # fs0[BackupPath(path)]

Stale(path) == fs0[path].exists /\ Substitutions(path) > 0

\* C10 (as claimed): the file count ProcessDirectory reports is the number of
\* files written; over three eligible files of which one holds a stale
\* identifier, the count reported is 1.
ReportCountsWrittenFiles ==
    (/\ fpc = "done"
     /\ dirMode
     /\ retErr = "nil"
     /\ Len(files) = 3
     /\ Cardinality({path \in Paths : Stale(path)}) = 1
     /\ Cardinality({path \in Paths : status[path] = "rewritten"}) = 1) =>
        report.files = 1

FailedStatus == {"failedRead", "failedBackup", "failedWrite"}

\* what a file adds to the total: its substitutions when it was rewritten
Contribution(path) == IF status[path] = "rewritten" THEN Substitutions(path) ELSE 0

RECURSIVE TotalOf(_)
TotalOf(paths) ==
    IF paths = <<>> THEN 0 ELSE Contribution(Head(paths)) + TotalOf(Tail(paths))

\* C11: partial-failure tolerance in directory mode.  When the processing of
\* an eligible file fails (read, backup write or content write) the loop goes
\* on: the files processed so far are always a prefix of the collected files in
\* walk order, a failed file adds 0 to the total, and ProcessDirectory ends
\* with every collected file processed and returns nil.
DirectoryToleratesFailures ==
    (dirMode /\ fpc \in {"ps_read", "uf_backup", "uf_write", "done"} /\ retErr # "walk") =>
        /\ retErr \in {"running", "nil"}
        /\ \A i \in DOMAIN files :
              (status[files[i]] # "none") <=>
                  (i < fi \/ (i = fi /\ fpc = "done"))
        /\ fpc \in {"ps_read", "done"} =>
              totalReplacements = TotalOf(SubSeq(files, 1, fi - 1))
        /\ fpc = "done" =>
              /\ fi = Len(files) + 1
              /\ retErr = "nil"
              /\ report.total = TotalOf(files)

\* C11 witness: a directory run has returned in which the processing of one
\* file failed and a file after it in walk order was rewritten
LaterFileRewrittenAfterFailure ==
    /\ fpc = "done"
    /\ dirMode
    /\ retErr = "nil"
    /\ \E i, j \in DOMAIN files :
          /\ i < j
          /\ status[files[i]] \in FailedStatus
          /\ Substitutions(files[i]) > 0
          /\ status[files[j]] = "rewritten"
          /\ report.total = Substitutions(files[j])

\* C12: a traversal error on an entry of the walk makes ProcessDirectory fail
\* with that error, and then no file of the tree has been written: the walk
\* is over before the first file is processed, so no write was attempted, the
\* tree is as it was, no file was processed and no totals are reported.
WalkErrorIsFatal ==
    /\ (dirMode /\ fpc = "collect") => (writes = <<>> /\ fs = fs0)
    /\ (dirMode /\ retErr = "walk") =>
          /\ fpc = "done"
          /\ writes = <<>>
          /\ fs = fs0
          /\ status = NoStatus
          /\ files = <<>>
          /\ report = NoReport

\* C12 witness: ProcessDirectory has failed with a traversal error over a
\* tree in which a file holds an identifier the plan replaces
WalkFailedOverStaleTree ==
    /\ dirMode
    /\ fpc = "done"
    /\ retErr = "walk"
    /\ \E path \in Paths : Stale(path)

ConfigErrors == {"load", "ErrNoAccountID", "ErrNoFilePath"}

\* C13: fail-fast validation of the configuration.  With no account or with
\* an empty target path runUpdate never gets past loadAndValidateConfig: it
\* returns a configuration error, no image-directory query has been issued,
\* no file has been read for patterns and the Processor has not been called,
\* so the tree is as it was.
ConfigFailsFast ==
    (upc # "idle" /\ (Len(cfgAccounts) = 0 \/ cfgFile = <<>>)) =>
        /\ upc \in {"start", "done"}
        /\ upc = "done" => runErr \in ConfigErrors
        /\ rpc = "idle"
        /\ calls = <<>>
        /\ pairs = <<>>
        /\ patterns = <<>>
        /\ faults = 0
        /\ fpc = "idle"
        /\ runs = 0
        /\ writes = <<>>
        /\ fs = fs0

\* C13 witness: runUpdate has returned ErrNoFilePath for a configuration with
\* an account, regions and patterns and no target path
NoFilePathRejected ==
    /\ upc = "done"
    /\ runErr = "ErrNoFilePath"
    /\ Len(cfgAccounts) > 0
    /\ Len(cfgPatterns) > 0

\* C14: a run whose plan is empty once every account and region is resolved
\* (also when every pair failed) logs "No AMI replacements found" and returns
\* nil; neither ProcessFile nor ProcessDirectory has been called and no file
\* has been written.
EmptyPlanIsSuccess ==
    (upc = "done" /\ rpc = "done" /\ Len(allReplacements) = 0) =>
        /\ runLog = "No AMI replacements found"
        /\ runErr = "nil"
        /\ runs = 0
        /\ fpc = "idle"
        /\ writes = <<>>
        /\ fs = fs0

\* C14 witness: a run has ended with an empty plan in which several pairs
\* were queried and every one of them failed
EveryPairFailed ==
    /\ upc = "done"
    /\ rpc = "done"
    /\ allReplacements = <<>>
    /\ Len(pairs) > 1
    /\ \A i \in DOMAIN pairs : pairs[i].failed
    /\ \E path \in Paths : fs[path].data = IdA

\* C15 (as claimed): in single-file mode a failed backup write or a failed
\* content write in ProcessFile does not make the run fail.
SingleFileWriteFailureTolerated ==
    (upc = "done" /\ runs = 1 /\ ~dirMode /\ retErr \in {"backup", "write"}) =>
        runErr = "nil"

\* C15 (amended): in single-file mode a read failure, a failed backup write
\* and a failed content write in ProcessFile each make the run fail, and the
\* run succeeds when the file is left unchanged or rewritten; in directory
\* mode the read, backup and write failures of a file are caught and the run
\* fails only when the walk fails.
SingleFileFailuresAreFatal ==
    (upc = "done" /\ runs = 1) =>
        /\ ~dirMode =>
              /\ status[cfgFile] \in FailedStatus => runErr = "process"
              /\ status[cfgFile] \in {"unchanged", "rewritten"} => runErr = "nil"
              /\ status[cfgFile] # "none"
        /\ dirMode => (runErr = "nil" <=> retErr # "walk")
        /\ runErr \in {"nil", "process"}

\* C15 witness: a single-file run has ended in which the backup write or the
\* content write of ProcessFile failed
SingleFileWriteFailed ==
    /\ upc = "done"
    /\ ~dirMode
    /\ runs = 1
    /\ status[cfgFile] \in {"failedBackup", "failedWrite"}

Distinct(reps) == \A i \in DOMAIN reps : reps[i].OldAMI # reps[i].NewAMI

\* C16: every mapping resolution produces has an old identifier other than
\* its new identifier: in what each processPattern call returns (Mode A and
\* Mode B), in what GetLatestAMIs and processAccount accumulate, and in the
\* plan.
OldDiffersFromNew ==
    /\ \A i \in DOMAIN calls : Distinct(calls[i].result.reps)
    /\ Distinct(replacements)
    /\ Distinct(accountReplacements)
    /\ Distinct(allReplacements)

\* C16 witness: the plan is complete and holds two mappings, from two older
\* images to the most recent one
PlanOfTwoMappings ==
    /\ rpc = "done"
    /\ Len(allReplacements) = 2
    /\ allReplacements[1].NewAMI = allReplacements[2].NewAMI
    /\ allReplacements[1].OldAMI # allReplacements[2].OldAMI

\* the mappings of the triples of a pair, in pattern order; none when one of
\* its queries failed
PairMappings(account, region) ==
    LET cs == CallsOf(account, region)
    IN  IF \E i \in DOMAIN cs : cs[i].result.err THEN <<>>
        ELSE Concat([i \in DOMAIN cs |-> cs[i].result.reps])

RECURSIVE SumLen(_)
SumLen(seqs) == IF seqs = <<>> THEN 0 ELSE Len(Head(seqs)) + SumLen(Tail(seqs))

\* C17: the plan is the plain concatenation of the per-triple mapping
\* sequences in discovery order.  The queries are issued pair after pair
\* (position: the index of the pair of a call among the configured pairs),
\* accounts outer, regions inner, patterns innermost in the given order; the
\* plan is the
\* mappings of the pairs that did not fail, pair after pair in that order,
\* nothing dropped, reordered or deduplicated; and its length is the sum of
\* the lengths of those pairs' sequences.
PlanIsConcatenation ==
    LET configured == ConfiguredPairs
        position(c) == CHOOSE k \in DOMAIN configured :
                          configured[k] = <<c.account, c.region>>
    IN  /\ \A i \in 1..(Len(calls) - 1) : position(calls[i]) <= position(calls[i + 1])
        /\ \A k \in DOMAIN configured :
              LET cs == CallsOf(configured[k][1], configured[k][2])
              IN  [i \in DOMAIN cs |-> cs[i].pattern] = SubSeq(patterns, 1, Len(cs))
        /\ rpc = "done" =>
              /\ allReplacements =
                    Concat([k \in DOMAIN configured |->
                               PairMappings(configured[k][1], configured[k][2])])
              /\ Len(allReplacements) =
                    SumLen([k \in DOMAIN pairs |->
                               IF pairs[k].failed THEN <<>> ELSE pairs[k].reps])

\* C17 witness: a plan is complete that holds the same mapping twice, made
\* of the mappings of two pairs at least, with a failed pair between
PlanKeepsDuplicates ==
    /\ rpc = "done"
    /\ \E i, j \in DOMAIN allReplacements : i < j /\ allReplacements[i] = allReplacements[j]
    /\ \E k \in DOMAIN pairs : pairs[k].failed
    /\ Cardinality({k \in DOMAIN pairs : pairs[k].reps # <<>>}) > 1

\* C18 (as claimed): a record whose creation timestamp does not parse is
\* dropped and never causes an error, in the name query and in the
\* exact-identifier lookup of Mode A alike: the candidates of a call hold no
\* such record, and no call fails because of one.
UnparseableNeverFails ==
    \A i \in DOMAIN calls :
        /\ \A k \in DOMAIN calls[i].result.amis :
              \E image \in Range(Dir(calls[i].account, calls[i].region)) :
                 /\ image.ImageId = calls[i].result.amis[k].ImageID
                 /\ ParseTime(image.CreationDate).ok
        /\ calls[i].result.lookup = "parse" => ~calls[i].result.err

IndexIn(seq, e) == CHOOSE i \in DOMAIN seq : seq[i] = e

\* the arrangements of the candidates a stable descending sort allows: most
\* recent first, candidates of equal timestamp in the order of the query
StableSorted(queried) ==
    {sorted \in SortSlice(queried) :
        \A i, j \in DOMAIN sorted :
            (i < j /\ sorted[i].CreationDate = sorted[j].CreationDate) =>
                IndexIn(queried, sorted[i]) < IndexIn(queried, sorted[j])}

\* the candidates of a call in the order the name query returned them
Queried(c) ==
    ParsedImages(ImagesByName(Dir(c.account, c.region),
                              IF IsAMIID(c.pattern) THEN DerivedPattern(c.result.info.Name)
                              ELSE c.pattern))

\* C19 (as claimed): the candidates are ordered by a stable descending sort
\* on the creation timestamp: candidates of equal timestamp keep the order
\* of the query, so of several candidates sharing the greatest timestamp the
\* one the query returned first is the latest.
StableDescendingSort ==
    \A i \in DOMAIN calls :
        calls[i].result.amis # <<>> =>
            /\ calls[i].result.amis \in StableSorted(Queried(calls[i]))
            /\ \A k \in DOMAIN Queried(calls[i]) :
                  Queried(calls[i])[k].CreationDate = calls[i].result.amis[1].CreationDate =>
                      IndexIn(Queried(calls[i]), calls[i].result.amis[1]) <= k

Permuted(plan, q) == [i \in DOMAIN plan |-> plan[q[i]]]

\* C20 (as claimed): the order of the plan does not affect the result.  For
\* a plan collectAMIReplacements has produced and every content, the mappings
\* applied in any order rewrite the content to what the plan in discovery
\* order rewrites it to (stated for the plans of at most MaxPlan + 1
\* mappings).
PlanOrderIrrelevant ==
    (rpc = "done" /\ Len(allReplacements) <= MaxPlan + 1) =>
        \A text \in Texts(MaxWords), q \in Perms(Len(allReplacements)) :
            ReplaceAMIsInContent(text, Permuted(allReplacements, q)).content =
                ReplaceAMIsInContent(text, allReplacements).content

\* the content holds a match of the identifier syntax
HoldsIdentifier(text) ==
    \E i \in DOMAIN text : text[i] = "ami-" /\ HexRun(text, i + 1) >= ShortHex

\* the eligibility of an entry of the walked tree, as the tree stood when the
\* walk began
Eligible(path) ==
    /\ fs0[path].exists
    /\ ~IsDirEntry(path)
    /\ ~IsBackup(path)
    /\ \/ ToLower(Ext(path)) \in TextExtensions
       \/ /\ status[path] # "unreadable"
          /\ HoldsIdentifier(fs0[path].data)

Walked == dirMode /\ fpc # "collect" /\ retErr # "walk"

\* C21: after the walk of a directory run, an entry is collected if and only
\* if it is a regular file that is not a backup and either its lower-cased
\* extension is a text extension or its content could be read and holds an
\* identifier; the collected entries stand in walk order
DirectoryEligibility ==
    Walked =>
        /\ \A path \in Paths : (path \in Range(files)) <=> Eligible(path)
        /\ \A i, j \in DOMAIN files :
              i < j => IndexIn(WalkOrder, files[i]) < IndexIn(WalkOrder, files[j])

\* C21 witness: the file without extension is collected for the identifier it
\* holds, the file with the upper-case extension for its extension, and the
\* existing backup is left out
CollectedByContent ==
    /\ Walked
    /\ files = TreeFiles
    /\ fs0[TreeFiles[3]].data = IdA
    /\ fs0[TreeFiles[1]].data = <<"x">>
    /\ fs0[BackupPath(TreeFiles[1])].exists
    /\ fs0[SubDir].exists

IsBackupOfBackup(path) == HasSuffix(path, <<Backup, Backup>>)

\* no backup is collected, read, rewritten or backed up, and no backup of a
\* backup exists
BackupsLeftAlone ==
    /\ \A path \in Paths :
          IsBackup(path) => path \notin Range(files) /\ status[path] = "none"
    /\ \A i \in DOMAIN writes : ~IsBackupOfBackup(writes[i].path)
    /\ \A path \in Paths : IsBackupOfBackup(path) => ~fs[path].exists

\* the backup files of the tree, and the entries of the tree that are eligible
\* as it stands
BackupFiles == {path \in Paths : IsBackup(path) /\ fs[path].exists}

EligibleFiles ==
    {path \in Paths :
        /\ fs[path].exists
        /\ ~IsDirEntry(path)
        /\ ~IsBackup(path)
        /\ \/ ToLower(Ext(path)) \in TextExtensions
           \/ HoldsIdentifier(fs[path].data)}

\* C22 (as claimed): over consecutive runs no backup is rewritten or backed
\* up, no backup of a backup is created, and the backup files of the tree
\* never outnumber its eligible files; the count is read where directory runs
\* alone have acted on the tree, in the first run when it is a directory run.
BackupsWithinEligible ==
    /\ BackupsLeftAlone
    /\ (dirMode /\ runs = 1) => Cardinality(BackupFiles) <= Cardinality(EligibleFiles)

\* the backup paths written in the run
BackupsWritten == {writes[i].path : i \in {k \in DOMAIN writes : IsBackup(writes[k].path)}}

\* C22 (amended): over consecutive runs no backup is rewritten or backed up,
\* no backup of a backup is created, and the backups a directory run writes
\* are backups of files its walk collected, so that they never outnumber the
\* files that were eligible when the walk collected them.
BackupsNeverReprocessed ==
    /\ BackupsLeftAlone
    /\ dirMode =>
          /\ BackupsWritten \subseteq {BackupPath(files[k]) : k \in DOMAIN files}
          /\ Cardinality(BackupsWritten) <= Len(files)

\* C22 witness: a second run walks a tree that holds the backup of an earlier
\* run and rewrites the backed-up file again
SecondWalkOverBackups ==
    /\ dirMode
    /\ runs = 2
    /\ fpc = "done"
    /\ fs0[BackupPath(TreeFiles[2])].exists
    /\ fs0[BackupPath(TreeFiles[2])].data = IdA
    /\ status[TreeFiles[2]] = "rewritten"

\* the run has loaded its configuration and reached the resolution
Resolving == upc \notin {"start", "clients", "fileinfo"} /\ rpc # "idle"

\* C23 (as claimed): when no regions are specified, each account is resolved
\* in exactly one region, the region of the AWS profile, and in none when the
\* profile has no region.
UnspecifiedRegionsUseProfile ==
    (~userRegions.given /\ Resolving) =>
        /\ \A i \in DOMAIN calls : calls[i].region = profileRegion
        /\ \A i \in DOMAIN pairs : pairs[i].region = profileRegion
        /\ rpc = "done" =>
              \A a \in DOMAIN cfgAccounts :
                  Cardinality({pairs[i].region :
                                  i \in {k \in DOMAIN pairs :
                                             pairs[k].account = cfgAccounts[a]}})
                      = IF profileRegion = "" THEN 0 ELSE 1

\* C24 (as claimed): in every run, for a single target file as for a
\* directory, the patterns resolved are the configured patterns, and each of
\* them is queried for each (account, region) pair that did not fail.
ConfiguredPatternsQueried ==
    Resolving =>
        /\ patterns = cfgPatterns
        /\ \A i \in DOMAIN pairs :
              ~pairs[i].failed =>
                  \A k \in DOMAIN cfgPatterns :
                      \E c \in DOMAIN calls :
                          /\ calls[c].account = pairs[i].account
                          /\ calls[c].region = pairs[i].region
                          /\ calls[c].pattern = cfgPatterns[k]

\* C25 (as claimed): in Mode A the candidates of the re-query by the pattern
\* derived from the name of the record found hold that record, whatever its
\* name, a name holding the family token anywhere included.
RequeryContainsOriginal ==
    ModeAFound =>
        /\ last.result.info \in Candidates(LastDir, DerivedPattern(last.result.info.Name))
        /\ last.result.info \in Range(last.result.amis)

\* C26: mode selection is by literal prefix only.  A token is resolved by the
\* exact-identifier lookup if and only if it starts with "ami-", wildcard or
\* not; a token so resolved whose lookup did not find a record is never
\* queried by name; and a lookup failure other than not-found voids the whole
\* (account, region) pair.
ModeByPrefix ==
    Called =>
        /\ (last.pattern # <<>> /\ last.pattern[1] = "ami-") <=> last.result.lookup # "n/a"
        /\ last.result.lookup \in {"notfound", "error", "parse"} =>
              last.result.reps = <<>> /\ last.result.amis = <<>>
        /\ last.result.lookup = "notfound" => ~last.result.err
        /\ last.result.lookup \in {"error", "parse"} =>
              /\ last.result.err
              /\ pairs = <<[account |-> last.account, region |-> last.region,
                            failed |-> TRUE, reps |-> <<>>]>>
              /\ allReplacements = <<>>

\* C26 witness: a token with the identifier prefix and a wildcard is looked up
\* as an identifier in a directory whose images a name filter "*" would match
WildcardIdentifierLookedUp ==
    /\ Called
    /\ last.pattern = IdGlob
    /\ last.result.lookup = "notfound"
    /\ Len(LastDir) = 2

\* the creation timestamp of the image of the directory with this identifier
StampOf(dir, id) == ParseTime(ImagesById(dir, id)[1].CreationDate).t

\* C27 (as claimed): resolution never downgrades; in every mapping Mode A or
\* Mode B emits, the image of the new identifier is at least as recent as the
\* image of the old one.
NeverDowngrades ==
    Called =>
        \A i \in DOMAIN LastReps :
            StampOf(LastDir, LastReps[i].NewAMI) >= StampOf(LastDir, LastReps[i].OldAMI)

\* the bytes are what the file or its backup holds
Kept(path, bytes) ==
    \/ fs[path].exists /\ fs[path].data = bytes
    \/ fs[BackupPath(path)].exists /\ fs[BackupPath(path)].data = bytes

\* C28: the original content is never lost during the mutation of a file.
\* Between the read of a file and the end of its mutation, in ProcessFile and
\* in updateFileWithBackup, and from then to the end of the run, whatever
\* write failed, the bytes read are held by the file or by its backup.
OriginalNeverLost ==
    /\ fpc \in {"pf_backup", "pf_write", "uf_backup", "uf_write"} => Kept(filePath, content)
    /\ \A path \in Paths :
          status[path] \in {"rewritten", "failedBackup", "failedWrite"} =>
              Kept(path, fs0[path].data)

\* C28 witness: the backup was written and the write of the new content
\* failed after truncating the file; the backup alone holds the bytes read
ContentWriteFailedAfterBackup ==
    \E path \in Paths :
        /\ status[path] = "failedWrite"
        /\ fs0[path].data # <<>>
        /\ fs[path].data = <<>>
        /\ fs[BackupPath(path)].data = fs0[path].data

\* the identifier tokens of a text from position i on, in order: the maximal
\* runs of "ami-" and hex characters that hold an identifier
RECURSIVE TokensFrom(_, _)
TokensFrom(text, i) ==
    IF i > Len(text) THEN <<>>
    ELSE IF text[i] = "ami-" /\ HexRun(text, i + 1) >= ShortHex
         THEN <<SubSeq(text, i, i + HexRun(text, i + 1))>>
              \o TokensFrom(text, i + 1 + HexRun(text, i + 1))
         ELSE TokensFrom(text, i + 1)

RECURSIVE IsSubsequence(_, _)
IsSubsequence(short, long) ==
    IF short = <<>> THEN TRUE
    ELSE IF long = <<>> THEN FALSE
    ELSE IF Head(short) = Head(long) THEN IsSubsequence(Tail(short), Tail(long))
    ELSE IsSubsequence(short, Tail(long))

IsOld(plan, token) == \E i \in DOMAIN plan : plan[i].OldAMI = token

\* C29 (as claimed): rewriting only replaces whole identifier tokens; the
\* tokens of the content that are no mapping's old identifier are tokens of
\* the rewritten content, in the same order, even when an old identifier is a
\* proper prefix of such a token.
OnlyWholeTokensReplaced ==
    rwPc \in {"once", "twice"} =>
        IsSubsequence(SelectSeq(TokensFrom(rwContent, 1), LAMBDA token : ~IsOld(rwPlan, token)),
                      TokensFrom(rwFirst.content, 1))

\* no identifier is the new identifier of one mapping and the old identifier
\* of another, and the mappings of one old identifier agree on the new one
ChainFree(plan) ==
    \A i, j \in DOMAIN plan :
        /\ plan[i].NewAMI # plan[j].OldAMI
        /\ plan[i].OldAMI = plan[j].OldAMI => plan[i].NewAMI = plan[j].NewAMI

\* C30 (as claimed): plans contain no replacement chains; whatever the
\* patterns, overlapping globs included, no identifier is the new identifier
\* of one mapping of the plan and the old identifier of another, and no two
\* mappings with the same old identifier have different new identifiers.
\* This is read of the plan and of what each pair contributes to it.
NoReplacementChains ==
    /\ ChainFree(allReplacements)
    /\ \A i \in DOMAIN pairs : ChainFree(pairs[i].reps)
====
